---- MODULE Spec2Model ----
(***************************************************************************)
(* Model of the extraction-to-table pipeline of gemini-pdf-extractor:      *)
(*   MAERSK_INC_info_extraction.py  (batch, one row per container - "INC") *)
(*   MAERSK_NA_info_extractor.py    (batch, one row per document  - "NA")  *)
(*   app.py                         (Flask service                - "app") *)
(*                                                                         *)
(* Python values are modelled as tokens (strings).  "None" is Python None  *)
(* / JSON null, "NaN" is the pandas missing value, "" is an empty          *)
(* spreadsheet cell, "0" is the number zero.  A JSON value that may be a   *)
(* scalar or a list is the record [k, s, l]: k = "scalar" with the token   *)
(* s, or k = "list" with the sequence of tokens l.                         *)
(***************************************************************************)
EXTENDS Naturals, Sequences, FiniteSets, TLC

VARIABLES
    \* ---- normalisation study (SpecNorm) ----
    nprog,      \* the program whose row loop is applied
    ndata,      \* the Record handed to the row loop
    nrows,      \* the rows the loop produced
    npc,        \* "ready" before, "done" after the loop
    \* ---- the programs (Spec) ----
    program,          \* "INC", "NA" or "app": which program runs
    credential,       \* batch: API_KEY, the value of GOOGLE_API_KEY or None
    file,             \* OUTPUT_FILE on disk: [state, cols, rows]
    pc,               \* batch main(): "idle", "extract", "save", "done", "dead"
    results,          \* main(): results
    processed_files,  \* main(): processed_files
    files_to_process, \* main(): files_to_process
    index,            \* main(): 1-based position in files_to_process
    extraction_results, \* app.py: the global list extraction_results
    th,               \* app.py: each request thread's position and locals
    \* ---- history (observation only, never read by an action's guard) ----
    run,              \* number of batch runs started
    startFile,        \* OUTPUT_FILE as it was when the current run started
    answers,          \* this run: document -> what the collaborator answered
    calls,            \* this run: the documents handed to extract_from_pdf, in order
    wfailed,          \* this run: documents whose save raised
    committed,        \* this run: documents in results at the last good save
    lastWrite,        \* outcome of the save of the previous iteration
    prev,             \* the previous run: [answers, wfailed, completed]
    written,          \* the program has written OUTPUT_FILE at least once
    nreq,             \* number of requests the service has received
    since             \* what followed the latest /clear_results that ran alone

nvars == <<nprog, ndata, nrows, npc>>
mvars == <<pc, results, processed_files, files_to_process, index>>
hvars == <<run, startFile, answers, calls, wfailed, committed, lastWrite, prev>>
svars == <<extraction_results, th, nreq, since>>
bvars == <<program, credential, file, written, mvars, hvars, svars>>
vars == <<nvars, bvars>>

(***************************************************************************)
(* Bounds                                                                  *)
(***************************************************************************)
MaxLen == 2        \* longest container_numbers / gross_weights list drawn
MaxRuns == 2       \* batch runs started one after the other
MaxRequests == 2   \* requests the service receives

(***************************************************************************)
(* Python values                                                           *)
(***************************************************************************)
None == "None"
NaN == "NaN"
EmptyCell == ""

Scalar(v) == [k |-> "scalar", s |-> v, l |-> <<>>]
List(q) == [k |-> "list", s |-> None, l |-> q]

\* Python truthiness of a scalar token: None, 0 and the empty string are falsy.
FalsyScalars == {None, "0", ""}

\* bool(v) for a scalar-or-list value
Truthy(v) == IF v.k = "list" THEN Len(v.l) > 0 ELSE v.s \notin FalsyScalars

\* Python `v or d`
Or(v, d) == IF Truthy(v) THEN v ELSE d

\* isinstance(v, list)
IsList(v) == v.k = "list"

\* dict.get(key) on a scalar field: None when the key is missing
Get(data, key) == IF key \in DOMAIN data THEN data[key] ELSE None

\* dict.get(key) on a field that may hold a list: None when the key is missing
GetAny(data, key) == IF key \in DOMAIN data THEN data[key] ELSE Scalar(None)

\* bool(data) of a dict: an empty dict is falsy
TruthyDict(data) == DOMAIN data # {}

EmptyDict == [x \in {} |-> None]

\* `while len(gross_weights) < len(container_numbers): gross_weights.append(None)`
PadWeights(gw, n) ==
    IF Len(gw) < n THEN gw \o [i \in 1..(n - Len(gw)) |-> None] ELSE gw

\* a slip: every row is given the first weight
MakeRowFirstWeight(data, filename, cn, gw, i) ==
    [ file_name          |-> filename,
      invoice_date       |-> Get(data, "invoice_date"),
      invoice_number     |-> Get(data, "invoice_number"),
      bl_number          |-> Get(data, "bl_number"),
      port_of_loading    |-> Get(data, "port_of_loading"),
      cy_cfs_destination |-> Get(data, "cy_cfs_destination"),
      container_number   |-> cn[i],
      gross_weight       |-> IF Len(gw) > 0 THEN gw[1] ELSE None,
      total_amount       |-> Get(data, "total_amount") ]

\* the row literal built for container i (same literal in INC and app)
MakeRow(data, filename, cn, gw, i) ==
    [ file_name          |-> filename,
      invoice_date       |-> Get(data, "invoice_date"),
      invoice_number     |-> Get(data, "invoice_number"),
      bl_number          |-> Get(data, "bl_number"),
      port_of_loading    |-> Get(data, "port_of_loading"),
      cy_cfs_destination |-> Get(data, "cy_cfs_destination"),
      container_number   |-> cn[i],
      gross_weight       |-> IF i <= Len(gw) THEN gw[i] ELSE None,
      total_amount       |-> Get(data, "total_amount") ]

(***************************************************************************)
(* MAERSK_INC main(), lines 143-169: the rows of one extracted document    *)
(***************************************************************************)
ContainersINC(data) ==
    LET c0 == Or(GetAny(data, "container_numbers"), List(<<None>>))
        c1 == IF IsList(c0) THEN c0.l ELSE <<c0.s>>
    IN  IF Len(c1) = 0 THEN <<None>> ELSE c1

WeightsINC(data) ==
    LET g0 == Or(GetAny(data, "gross_weights"), List(<<>>))
    IN  IF IsList(g0) THEN g0.l ELSE <<g0.s>>

\* a slip: one row per entry of the longer of the two lists
RowsINCByLongest(data, filename) ==
    LET c0 == ContainersINC(data)
        g0 == WeightsINC(data)
        n  == IF Len(g0) > Len(c0) THEN Len(g0) ELSE Len(c0)
        cn == PadWeights(c0, n)
        gw == PadWeights(g0, n)
    IN  [i \in 1..n |-> MakeRow(data, filename, cn, gw, i)]

RowsINC(data, filename) ==
    LET cn == ContainersINC(data)
        gw == PadWeights(WeightsINC(data), Len(cn))
    IN  [i \in 1..Len(cn) |-> MakeRow(data, filename, cn, gw, i)]

\* lines 141-169: `if data:` guards the whole row loop
ProducedINC(data, filename) ==
    IF TruthyDict(data) THEN RowsINC(data, filename) ELSE <<>>

(***************************************************************************)
(* app.py extract(), lines 128-160: the rows of one uploaded document      *)
(***************************************************************************)
ContainersApp(data) ==
    LET c0 == GetAny(data, "container_numbers")
        c1 == IF c0 = Scalar(None) THEN <<None>>
              ELSE IF ~IsList(c0) THEN <<c0.s>>
              ELSE c0.l
    IN  IF Len(c1) = 0 THEN <<None>> ELSE c1

WeightsApp(data) ==
    LET g0 == Or(GetAny(data, "gross_weights"), List(<<>>))
    IN  IF IsList(g0) THEN g0.l ELSE <<g0.s>>

RowsApp(data, filename) ==
    LET cn == ContainersApp(data)
        gw == PadWeights(WeightsApp(data), Len(cn))
    IN  [i \in 1..Len(cn) |-> MakeRow(data, filename, cn, gw, i)]

(***************************************************************************)
(* Normalisation study: a Record drawn from NormRecords is handed to the   *)
(* row loop of INC or of app.                                              *)
(***************************************************************************)
SeqsUpTo(S, n) == UNION {[1..m -> S] : m \in 0..n}

ContainerTokens == {None, "C1", "C2"}
WeightTokens == {None, "W1", "W2"}

ContainerValues ==
    {Scalar(None), Scalar("C1"), Scalar("")}
        \cup {List(q) : q \in SeqsUpTo(ContainerTokens, MaxLen)}
WeightValues ==
    {Scalar(None), Scalar("W1"), Scalar("0")}
        \cup {List(q) : q \in SeqsUpTo(WeightTokens, MaxLen)}

ScalarKeys == {"invoice_date", "invoice_number", "bl_number",
               "port_of_loading", "cy_cfs_destination", "total_amount"}
ListKeys == {"container_numbers", "gross_weights"}

\* the value the collaborator reports for a scalar key when it reports one
FullScalars ==
    [ invoice_date       |-> "11-Oct-2021",
      invoice_number     |-> "202057121",
      bl_number          |-> None,
      port_of_loading    |-> "Oakland",
      cy_cfs_destination |-> "",
      total_amount       |-> "1341.00" ]

\* a Record: any subset of the scalar keys, and each list key missing or present
NormRecords ==
    { [key \in S \cup L |->
          IF key = "container_numbers" THEN c
          ELSE IF key = "gross_weights" THEN g
          ELSE FullScalars[key]] :
        S \in SUBSET ScalarKeys, L \in SUBSET ListKeys,
        c \in ContainerValues, g \in WeightValues }

\* a Record of the NA variant with every field of its schema
RecFullNA ==
    [ invoice_number       |-> "698064567",
      invoice_date         |-> "10/22/2023",
      place_of_receipt     |-> "Santos",
      place_of_delivery    |-> "Rotterdam",
      bl_number            |-> "SUDU22PHL039856A",
      container_number     |-> "MSKU2804235",
      pcd                  |-> "10/25/2023",
      total_payable_amount |-> "650.00" ]

\* a Record of the NA variant: any subset of its eight keys
NormRecordsNA ==
    { [key \in S |-> RecFullNA[key]] : S \in SUBSET DOMAIN RecFullNA }

NormFile == "a.pdf"

\* MAERSK_NA main(), lines 151-152: data['filename'] = filename
ProducedNA(data, filename) ==
    IF TruthyDict(data)
    THEN << [c \in DOMAIN data \cup {"filename"} |->
                IF c = "filename" THEN filename ELSE data[c]] >>
    ELSE <<>>

BatchIdle ==
    /\ program = "none" /\ credential = "None" /\ file = [state |-> "absent", cols |-> <<>>, rows |-> <<>>]
    /\ pc = "idle" /\ results = <<>> /\ processed_files = {}
    /\ files_to_process = <<>> /\ index = 1 /\ run = 0
    /\ startFile = file /\ answers = <<>> /\ calls = <<>> /\ wfailed = {} /\ committed = {}
    /\ lastWrite = "none" /\ prev = <<>>
    /\ written = FALSE /\ nreq = 0 /\ extraction_results = <<>> /\ th = <<>>
    /\ since = <<>>

NormInit ==
    /\ BatchIdle
    /\ nprog \in {"INC", "NA", "app"}
    /\ ndata \in (IF nprog = "NA" THEN NormRecordsNA ELSE NormRecords)
    /\ nrows = <<>>
    /\ npc = "ready"

NormalizeINC ==
    /\ npc = "ready" /\ nprog = "INC"
    /\ nrows' = ProducedINC(ndata, NormFile)
    /\ npc' = "done"
    /\ UNCHANGED <<nprog, ndata, bvars>>

NormalizeApp ==
    /\ npc = "ready" /\ nprog = "app"
    /\ nrows' = RowsApp(ndata, NormFile)
    /\ npc' = "done"
    /\ UNCHANGED <<nprog, ndata, bvars>>

NormalizeNA ==
    /\ npc = "ready" /\ nprog = "NA"
    /\ nrows' = ProducedNA(ndata, NormFile)
    /\ npc' = "done"
    /\ UNCHANGED <<nprog, ndata, bvars>>

NormNext == NormalizeINC \/ NormalizeNA \/ NormalizeApp

SpecNorm == NormInit /\ [][NormNext]_vars

(***************************************************************************)
(* The output table on disk and its pandas conversions                     *)
(***************************************************************************)
Range(q) == {q[i] : i \in 1..Len(q)}

AbsentFile == [state |-> "absent", cols |-> <<>>, rows |-> <<>>]
CorruptFile == [state |-> "corrupt", cols |-> <<>>, rows |-> <<>>]

\* the column order the program writes (`cols`)
ColsINC == <<"file_name", "invoice_date", "invoice_number", "bl_number",
             "port_of_loading", "cy_cfs_destination", "container_number",
             "gross_weight", "total_amount">>
ColsNA == <<"filename", "invoice_number", "invoice_date", "place_of_receipt",
            "place_of_delivery", "bl_number", "container_number", "pcd",
            "total_payable_amount">>
ColsApp == <<"file_name", "invoice_date", "invoice_number", "bl_number",
             "port_of_loading", "cy_cfs_destination", "container_number",
             "gross_weight", "total_amount">>

\* a value as a spreadsheet cell: None and NaN are written as empty cells
ToCell(v) == IF v \in {None, NaN} THEN EmptyCell ELSE v

\* a cell as read_excel returns it: an empty cell is NaN
FromCell(c) == IF c = EmptyCell THEN NaN ELSE c

\* a slip: only the keys the dicts carry become columns, none is added,
\* the order is not enforced
FrameOfKeysOnly(rs, cols) ==
    LET keys == UNION {DOMAIN rs[i] : i \in 1..Len(rs)}
        kept == SelectSeq(cols, LAMBDA c : c \in keys)
    IN  [state |-> "ok",
         cols  |-> kept,
         rows  |-> [i \in 1..Len(rs) |->
                       [c \in DOMAIN rs[i] |-> ToCell(rs[i][c])]]]

\* pd.DataFrame(results); add each missing column as None; df[cols]; to_excel
Frame(rs, cols) ==
    [state |-> "ok",
     cols  |-> cols,
     rows  |-> [i \in 1..Len(rs) |->
                   [c \in Range(cols) |->
                       IF c \in DOMAIN rs[i] THEN ToCell(rs[i][c])
                       ELSE EmptyCell]]]

\* pd.read_excel(OUTPUT_FILE).to_dict('records')
ToDictRecords(f) ==
    [i \in 1..Len(f.rows) |->
        [c \in Range(f.cols) |-> FromCell(f.rows[i][c])]]

\* MAERSK_INC main(), lines 101-112: results after the load
LoadINC(f) ==
    IF f.state = "ok" /\ "filename" \in Range(f.cols)
    THEN ToDictRecords(f) ELSE <<>>

\* MAERSK_NA main(), lines 111-122: results after the load
LoadNA(f) ==
    IF f.state = "ok" /\ "filename" \in Range(f.cols)
    THEN ToDictRecords(f) ELSE <<>>

\* line 116 / 125: {r[id] for r in results if id in r}
ProcessedINC(rs) ==
    {rs[i]["file_name"] : i \in {j \in 1..Len(rs) : "file_name" \in DOMAIN rs[j]}}
ProcessedNA(rs) ==
    {rs[i]["filename"] : i \in {j \in 1..Len(rs) : "filename" \in DOMAIN rs[j]}}

\* os.listdir(FOLDER_PATH), in discovery order
Folder == <<"a.pdf", "b.PDF", "notes.txt">>

\* f.lower().endswith('.pdf')
LowerEndsWithPdf(f) == f \in {"a.pdf", "b.PDF"}

\* line 119 / 128
AllFiles == SelectSeq(Folder, LowerEndsWithPdf)

\* a slip: the filter keeps the processed documents too
PendingUnfiltered(all, processed) == all

\* line 122 / 131
Pending(all, processed) == SelectSeq(all, LAMBDA f : f \notin processed)

(***************************************************************************)
(* The collaborator: what extract_from_pdf can return for a document       *)
(***************************************************************************)
\* the except branch: return None
Absent == [kind |-> "error", data |-> EmptyDict]
\* json.loads gave something that is no dict and is truthy (a list, a string)
NonDict == [kind |-> "nondict", data |-> EmptyDict]
Dict(d) == [kind |-> "dict", data |-> d]
Uncalled == [kind |-> "uncalled", data |-> EmptyDict]

RecExample ==
    [ container_numbers |-> List(<<"C1", "C2">>),
      gross_weights     |-> List(<<"W1">>),
      total_amount      |-> "1341.00" ]
RecNoItems ==
    [ invoice_number    |-> "202057121",
      container_numbers |-> Scalar(None) ]
RecPartNA ==
    [ invoice_number   |-> "200517",
      container_number |-> None ]

OutcomesINC == {Absent, NonDict, Dict(EmptyDict), Dict(RecExample), Dict(RecNoItems)}
OutcomesNA == {Absent, NonDict, Dict(EmptyDict), Dict(RecFullNA), Dict(RecPartNA)}

Outcomes(p) == IF p = "NA" THEN OutcomesNA ELSE OutcomesINC

(***************************************************************************)
(* What is on disk when a program is started for the first time            *)
(***************************************************************************)
LegacyINC ==
    [state |-> "ok",
     cols  |-> <<"file_name", "invoice_number">>,
     rows  |-> << [file_name |-> "a.pdf", invoice_number |-> "L0"] >>]
LegacyNA ==
    [state |-> "ok",
     cols  |-> <<"filename", "invoice_number">>,
     rows  |-> << [filename |-> "a.pdf", invoice_number |-> "L0"] >>]

InitialDisks(p) ==
    {AbsentFile, CorruptFile, IF p = "NA" THEN LegacyNA ELSE LegacyINC}

(***************************************************************************)
(* The batch programs: main()                                              *)
(***************************************************************************)
\* the request threads of the service, and a thread between two requests
Threads == {"t1", "t2"}

NoResponse == [status |-> 0, error |-> "", data |-> <<>>, total |-> 0]
ErrorResponse(code, msg) == [status |-> code, error |-> msg, data |-> <<>>, total |-> 0]

\* what is remembered of a thread's latest request (observation only):
\* the endpoint, the api_key posted, whether extract_from_pdf was called,
\* the length of extraction_results when the handler started, whether every
\* thread was idle at that moment and, if so, the list, the file and the
\* number of requests received as they were then
NoRequest ==
    [kind |-> "none", key |-> "", called |-> FALSE, before |-> 0,
     list |-> <<>>, file |-> AbsentFile, n |-> 0, quiet |-> TRUE]
Request(kind, key, called, before) ==
    LET quiet == \A u \in Threads : th[u].pc = "idle"
    IN  [kind |-> kind, key |-> key, called |-> called, before |-> before,
         list |-> IF quiet THEN extraction_results ELSE <<>>,
         file |-> IF quiet THEN file ELSE AbsentFile,
         n |-> IF quiet THEN nreq ELSE 0,
         quiet |-> quiet]

IdleThread ==
    [pc |-> "idle", rows |-> <<>>, i |-> 1, frame |-> AbsentFile,
     resp |-> NoResponse, req |-> NoRequest]

\* since: "no" when no /clear_results has run from its first line to its
\* answer with every other thread idle, or when more has happened since
\* than the states below tell; else "clearing" (it is running), "cleared"
\* (it answered, nothing changed since), "asked" (thread by was then
\* answered a /download), "extracting" (thread by was then accepted by
\* /extract, alone), "extracted" (and was answered 200)
NotCleared == [st |-> "no", by |-> "t1"]
Since(st, t) == [st |-> st, by |-> t]
AfterAtomic(t) == IF since.st \in {"cleared", "asked"} THEN Since("cleared", t)
                  ELSE NotCleared

\* thread t begins a request and becomes rec; what the other threads
\* remember of the state before their own request is dropped, as this
\* request may change the state from now on
Faded(req) ==
    [req EXCEPT !.list = <<>>, !.file = AbsentFile, !.n = 0, !.quiet = FALSE]
Begin(t, rec) ==
    [u \in Threads |-> IF u = t THEN rec ELSE [th[u] EXCEPT !.req = Faded(@)]]

\* a thread that has answered its request
Answered(req, resp) == [IdleThread EXCEPT !.resp = resp, !.req = req]

IdCol(p) == IF p = "NA" THEN "filename" ELSE "file_name"
Cols(p) == IF p = "NA" THEN ColsNA ELSE IF p = "INC" THEN ColsINC ELSE ColsApp
Load(p, f) == IF p = "NA" THEN LoadNA(f) ELSE LoadINC(f)
Processed(p, rs) == IF p = "NA" THEN ProcessedNA(rs) ELSE ProcessedINC(rs)

Produced(p, data, filename) ==
    IF p = "NA" THEN ProducedNA(data, filename) ELSE ProducedINC(data, filename)

NoAnswers == [d \in Range(AllFiles) |-> Uncalled]
NoPrev == [answers |-> NoAnswers, wfailed |-> {}, completed |-> FALSE]

Current == files_to_process[index]

Init ==
    /\ nprog = "none" /\ ndata = EmptyDict /\ nrows = <<>> /\ npc = "off"
    /\ program \in {"INC", "NA", "app"}
    /\ credential \in (IF program = "app" THEN {None} ELSE {None, "key"})
    /\ file \in InitialDisks(program)
    /\ written = FALSE
    /\ extraction_results = <<>>
    /\ th = [t \in Threads |-> IdleThread]
    /\ nreq = 0
    /\ since = NotCleared
    /\ pc = "idle"
    /\ results = <<>>
    /\ processed_files = {}
    /\ files_to_process = <<>>
    /\ index = 1
    /\ run = 0
    /\ startFile = file
    /\ answers = NoAnswers
    /\ calls = <<>>
    /\ wfailed = {}
    /\ committed = {}
    /\ lastWrite = "none"
    /\ prev = NoPrev

\* a slip: the read of the table is outside the try
LoadEscapesUncaught(p, f) == f.state = "corrupt"

\* the read of the table is inside try / except Exception (INC lines
\* 105-112, NA lines 115-122): no failure of the read leaves main()
LoadEscapes(p, f) == FALSE

\* main() up to the loop: load, processed_files, all_files, files_to_process
StartRun ==
    /\ program \in {"INC", "NA"}
    /\ pc \in {"idle", "done", "dead"}
    /\ run < MaxRuns
    /\ IF LoadEscapes(program, file)
       THEN /\ results' = <<>>
            /\ processed_files' = {}
            /\ files_to_process' = <<>>
            /\ pc' = "dead"
       ELSE /\ results' = Load(program, file)
            /\ processed_files' = Processed(program, results')
            /\ files_to_process' = Pending(AllFiles, processed_files')
            /\ pc' = "extract"
    /\ index' = 1
    /\ run' = run + 1
    /\ startFile' = file
    /\ prev' = [answers |-> answers, wfailed |-> wfailed, completed |-> (pc = "done")]
    /\ answers' = NoAnswers
    /\ calls' = <<>>
    /\ wfailed' = {}
    /\ committed' = {}
    /\ lastWrite' = "none"
    /\ UNCHANGED <<file, program, credential, written, svars, nvars>>

\* what extract_from_pdf does in this run.  Without a key (API_KEY is None,
\* INC lines 13 and 18, NA lines 12 and 17) generate_content raises and the
\* except of extract_from_pdf returns None, for every document
CallOutcomes == IF credential = None THEN {Absent} ELSE Outcomes(program)

\* a slip: a failed extraction leaves a placeholder row
SkipWithPlaceholder(rs, p, filename) ==
    rs \o << [c \in {IdCol(p)} |-> filename] >>

\* `if data:` is false: nothing is appended
Skip(rs, p, filename) == rs

\* one iteration whose extraction gives nothing to append: extract_from_pdf
\* returned None, or an empty dict; then time.sleep(1)
ExtractNothing ==
    /\ pc = "extract" /\ index <= Len(files_to_process)
    /\ \E o \in CallOutcomes :
          /\ o.kind = "error" \/ (o.kind = "dict" /\ ~TruthyDict(o.data))
          /\ answers' = [answers EXCEPT ![Current] = o]
          /\ calls' = Append(calls, Current)
    /\ results' = Skip(results, program, Current)
    /\ index' = index + 1
    /\ lastWrite' = "none"
    /\ UNCHANGED <<program, credential, file, pc, processed_files, files_to_process, run,
                   startFile, wfailed, committed, prev, written, svars, nvars>>

\* one iteration whose extraction gives a Record: the rows are appended
ExtractRecord ==
    /\ pc = "extract" /\ index <= Len(files_to_process)
    /\ \E o \in CallOutcomes :
          /\ o.kind = "dict" /\ TruthyDict(o.data)
          /\ answers' = [answers EXCEPT ![Current] = o]
          /\ calls' = Append(calls, Current)
          /\ results' = results \o Produced(program, o.data, Current)
    /\ pc' = "save"
    /\ lastWrite' = "none"
    /\ UNCHANGED <<program, credential, file, processed_files, files_to_process, index, run,
                   startFile, wfailed, committed, prev, written, svars, nvars>>

\* the collaborator's JSON is not an object: data.get / data['filename'] = ...
\* raises outside every try, and the program ends with a traceback
ExtractRaises ==
    /\ pc = "extract" /\ index <= Len(files_to_process)
    /\ \E o \in CallOutcomes :
          /\ o.kind = "nondict"
          /\ answers' = [answers EXCEPT ![Current] = o]
          /\ calls' = Append(calls, Current)
    /\ pc' = "dead"
    /\ lastWrite' = "none"
    /\ UNCHANGED <<program, credential, file, results, processed_files, files_to_process,
                   index, run, startFile, wfailed, committed, prev, written,
                   svars, nvars>>

Appended == {d \in DOMAIN answers :
                answers[d].kind = "dict" /\ TruthyDict(answers[d].data)}

\* a slip: a save that raised rolls the document's rows back
AfterFailedSaveRollback(rs, filename) ==
    SelectSeq(rs, LAMBDA r : ~(\E c \in {"file_name", "filename"} :
                                  c \in DOMAIN r /\ r[c] = filename))

\* the except branch of the save: results is left as it is
AfterFailedSave(rs, filename) == rs

\* the incremental save succeeds; then time.sleep(1)
SaveOK ==
    /\ pc = "save"
    /\ file' = Frame(results, Cols(program))
    /\ written' = TRUE
    /\ committed' = Appended
    /\ lastWrite' = "ok"
    /\ index' = index + 1
    /\ pc' = "extract"
    /\ UNCHANGED <<program, credential, results, processed_files, files_to_process, run,
                   startFile, answers, calls, wfailed, prev, svars, nvars>>

\* to_excel raises (the file is open elsewhere, the disk is full): the
\* exception is printed and the loop goes on
SaveFail ==
    /\ pc = "save"
    /\ results' = AfterFailedSave(results, Current)
    /\ wfailed' = wfailed \cup {Current}
    /\ lastWrite' = "failed"
    /\ index' = index + 1
    /\ pc' = "extract"
    /\ UNCHANGED <<program, credential, file, processed_files, files_to_process, run,
                   startFile, answers, calls, committed, prev, written, svars, nvars>>

\* the loop is over: the final print
Finish ==
    /\ pc = "extract" /\ index > Len(files_to_process)
    /\ pc' = "done"
    /\ UNCHANGED <<program, credential, file, written, results, processed_files, files_to_process, index, hvars, svars, nvars>>

\* the process is killed from outside, at any point of the loop
Terminate ==
    /\ pc \in {"extract", "save"}
    /\ pc' = "dead"
    /\ UNCHANGED <<program, credential, file, written, results, processed_files, files_to_process, index, hvars, svars, nvars>>


(***************************************************************************)
(* app.py: the Flask service.  app.run() serves each request on its own    *)
(* thread; the steps of a handler that touch extraction_results or the     *)
(* file are separate actions, so that two requests interleave.             *)
(***************************************************************************)
\* what a client can post to /extract
Uploads ==
    { [api_key |-> k, has_file |-> h, filename |-> f] :
        k \in {"", "key"}, h \in BOOLEAN, f \in {"", "notes.txt", "a.pdf", "b.PDF"} }

\* allowed_file(filename), line 69
allowed_file(f) == f \in {"a.pdf", "b.PDF"}

\* secure_filename(filename) of the names posted here
secure_filename(f) == f

\* what extract_from_pdf can do in the service: raise, or return the JSON
OutcomesApp == {Absent, NonDict, Dict(EmptyDict), Dict(RecExample)}

\* extract(), lines 105-118: the request is turned down before any call
ExtractRejected(t) ==
    /\ program = "app" /\ th[t].pc = "idle" /\ nreq < MaxRequests
    /\ \E u \in Uploads :
          /\ u.api_key = "" \/ ~u.has_file \/ u.filename = "" \/ ~allowed_file(u.filename)
          /\ th' = Begin(t,
                 Answered(Request("extract", u.api_key, FALSE, Len(extraction_results)),
                     IF u.api_key = "" THEN ErrorResponse(400, "API key is required")
                     ELSE IF ~u.has_file THEN ErrorResponse(400, "No file uploaded")
                     ELSE ErrorResponse(400, "Invalid file")))
    /\ nreq' = nreq + 1
    /\ since' = AfterAtomic(t)
    /\ UNCHANGED <<program, credential, file, written, extraction_results, mvars, hvars, nvars>>

\* extract(), lines 105-144: the request is accepted, the collaborator
\* answers with a Record and the lists are normalised (all local)
ExtractCalled(t) ==
    /\ program = "app" /\ th[t].pc = "idle" /\ nreq < MaxRequests
    /\ \E u \in Uploads, o \in OutcomesApp :
          /\ u.api_key # "" /\ u.has_file /\ u.filename # "" /\ allowed_file(u.filename)
          /\ o.kind = "dict"
          /\ th' = Begin(t,
                 [pc |-> "append", rows |-> RowsApp(o.data, secure_filename(u.filename)),
                  i |-> 1, frame |-> AbsentFile, resp |-> NoResponse,
                  req |-> Request("extract", u.api_key, TRUE, Len(extraction_results))])
    /\ nreq' = nreq + 1
    /\ since' = IF since.st \in {"cleared", "asked"} THEN Since("extracting", t)
                ELSE NotCleared
    /\ UNCHANGED <<program, credential, file, written, extraction_results, mvars, hvars, nvars>>

\* extract(), lines 125-128 and 182-183: extract_from_pdf raises, or
\* data.get raises on JSON that is no object; the except answers 500
ExtractFailed(t) ==
    /\ program = "app" /\ th[t].pc = "idle" /\ nreq < MaxRequests
    /\ \E u \in Uploads, o \in OutcomesApp :
          /\ u.api_key # "" /\ u.has_file /\ u.filename # "" /\ allowed_file(u.filename)
          /\ o.kind \in {"error", "nondict"}
          /\ th' = Begin(t,
                 Answered(Request("extract", u.api_key, TRUE, Len(extraction_results)),
                     ErrorResponse(500, IF o.kind = "error" THEN "Gemini API Error"
                                        ELSE "AttributeError")))
    /\ nreq' = nreq + 1
    /\ since' = AfterAtomic(t)
    /\ UNCHANGED <<program, credential, file, written, extraction_results, mvars, hvars, nvars>>

\* lines 147-160: one turn of the loop appends one row to the global list
AppendRow(t) ==
    /\ program = "app" /\ th[t].pc = "append" /\ th[t].i <= Len(th[t].rows)
    /\ extraction_results' = Append(extraction_results, th[t].rows[th[t].i])
    /\ th' = [th EXCEPT ![t].i = @ + 1]
    /\ since' = since
    /\ UNCHANGED <<program, credential, file, written, nreq, mvars, hvars, nvars>>

\* lines 163-173: `if extraction_results:`, and the DataFrame is built from
\* the global list as it is now; an empty list skips the save
BuildFrame(t) ==
    /\ program = "app" /\ th[t].pc = "append" /\ th[t].i > Len(th[t].rows)
    /\ th' = IF extraction_results = <<>>
             THEN [th EXCEPT ![t].pc = "respond"]
             ELSE [th EXCEPT ![t].pc = "write",
                             ![t].frame = Frame(extraction_results, ColsApp)]
    /\ since' = since
    /\ UNCHANGED <<program, credential, file, written, extraction_results, nreq, mvars,
                   hvars, nvars>>

\* line 174: to_excel writes the frame
WriteOK(t) ==
    /\ program = "app" /\ th[t].pc = "write"
    /\ file' = th[t].frame
    /\ written' = TRUE
    /\ th' = [th EXCEPT ![t].pc = "respond"]
    /\ since' = since
    /\ UNCHANGED <<program, credential, extraction_results, nreq, mvars, hvars, nvars>>

\* line 174 raises: the except of line 182 answers 500
WriteFail(t) ==
    /\ program = "app" /\ th[t].pc = "write"
    /\ th' = [th EXCEPT ![t] =
                 Answered(th[t].req, ErrorResponse(500, "PermissionError"))]
    /\ since' = NotCleared
    /\ UNCHANGED <<program, credential, file, written, extraction_results, nreq, mvars,
                   hvars, nvars>>

\* lines 176-180: the answer, with len(extraction_results) as it is now
Respond(t) ==
    /\ program = "app" /\ th[t].pc = "respond"
    /\ th' = [th EXCEPT ![t] =
                 Answered(th[t].req,
                     [status |-> 200, error |-> "", data |-> th[t].rows,
                      total |-> Len(extraction_results)])]
    /\ since' = IF since = Since("extracting", t) THEN Since("extracted", t)
                ELSE NotCleared
    /\ UNCHANGED <<program, credential, file, written, extraction_results, nreq, mvars,
                   hvars, nvars>>

\* a slip: without `global`, the assignment binds a local name
ClearedLocalOnly(rs) == rs

\* clear_results(), lines 193-194: global extraction_results; = []
Cleared(rs) == <<>>

\* clear_results(), line 194: the global list is replaced by an empty one
ClearList(t) ==
    /\ program = "app" /\ th[t].pc = "idle" /\ nreq < MaxRequests
    /\ extraction_results' = Cleared(extraction_results)
    /\ th' = Begin(t, [IdleThread EXCEPT !.pc = "clear",
                 !.req = Request("clear", "", FALSE, Len(extraction_results))])
    /\ nreq' = nreq + 1
    /\ since' = IF \A u \in Threads \ {t} : th[u].pc = "idle"
                THEN Since("clearing", t) ELSE NotCleared
    /\ UNCHANGED <<program, credential, file, written, mvars, hvars, nvars>>

\* clear_results(), lines 195-197: the file is removed when it exists
ClearFile(t) ==
    /\ program = "app" /\ th[t].pc = "clear"
    /\ file' = AbsentFile
    /\ th' = [th EXCEPT ![t] =
                 Answered(th[t].req,
                     [status |-> 200, error |-> "", data |-> <<>>, total |-> 0])]
    /\ since' = IF since = Since("clearing", t) THEN Since("cleared", t)
                ELSE NotCleared
    /\ UNCHANGED <<program, credential, written, extraction_results, nreq, mvars, hvars, nvars>>

\* download(), lines 187-189
Download(t) ==
    /\ program = "app" /\ th[t].pc = "idle" /\ nreq < MaxRequests
    /\ th' = Begin(t,
                 Answered(Request("download", "", FALSE, Len(extraction_results)),
                     IF file.state # "absent"
                     THEN [status |-> 200, error |-> "", data |-> file.rows, total |-> 0]
                     ELSE ErrorResponse(404, "No results to download")))
    /\ nreq' = nreq + 1
    /\ since' = IF since.st \in {"cleared", "asked"} THEN Since("asked", t)
                ELSE NotCleared
    /\ UNCHANGED <<program, credential, file, written, extraction_results, mvars, hvars, nvars>>

Service ==
    \E t \in Threads :
        \/ ExtractRejected(t)
        \/ ExtractCalled(t)
        \/ ExtractFailed(t)
        \/ AppendRow(t)
        \/ BuildFrame(t)
        \/ WriteOK(t)
        \/ WriteFail(t)
        \/ Respond(t)
        \/ ClearList(t)
        \/ ClearFile(t)
        \/ Download(t)

Next ==
    \/ StartRun
    \/ ExtractNothing
    \/ ExtractRecord
    \/ ExtractRaises
    \/ SaveOK
    \/ SaveFail
    \/ Finish
    \/ Terminate
    \/ Service

Spec == Init /\ [][Next]_vars

(***************************************************************************)
(* Properties                                                              *)
(***************************************************************************)
IsBatch == program \in {"INC", "NA"}
Started == IsBatch /\ run >= 1

\* the Record's field is a list
HasList(data, key) == key \in DOMAIN data /\ IsList(data[key])

\* C1: a Record whose container_numbers list has N >= 1 entries and whose
\* gross_weights list has M < N entries gives exactly N rows; row i carries
\* container i, and weight i when i <= M, null otherwise (INC loop and app).
C1_ShortWeightsPadded ==
    (/\ npc = "done" /\ nprog \in {"INC", "app"}
     /\ HasList(ndata, "container_numbers")
     /\ HasList(ndata, "gross_weights")
     /\ Len(ndata["container_numbers"].l) >= 1
     /\ Len(ndata["gross_weights"].l) < Len(ndata["container_numbers"].l))
    => LET cn == ndata["container_numbers"].l
           gw == ndata["gross_weights"].l
       IN  /\ Len(nrows) = Len(cn)
           /\ \A i \in 1..Len(cn) :
                 /\ nrows[i].container_number = cn[i]
                 /\ nrows[i].gross_weight = IF i <= Len(gw) THEN gw[i] ELSE None
                 /\ nrows[i].file_name = NormFile

\* the example of the specification, handled by the service
C1_Witness ==
    /\ npc = "done" /\ nprog = "app"
    /\ HasList(ndata, "container_numbers") /\ HasList(ndata, "gross_weights")
    /\ ndata["container_numbers"].l = <<"C1", "C2">>
    /\ ndata["gross_weights"].l = <<"W1">>
    /\ Len(nrows) = 2
    /\ nrows[1].gross_weight = "W1"
    /\ nrows[2].gross_weight = None

\* the Record's container_numbers is missing, null or an empty list
NoContainers(data) ==
    \/ "container_numbers" \notin DOMAIN data
    \/ data["container_numbers"] = Scalar(None)
    \/ data["container_numbers"] = List(<<>>)

\* C2: a Record whose container_numbers is missing, null or an empty list
\* gives exactly one row, and its container_number is null.
C2_OneRowWithoutContainers ==
    (npc = "done" /\ nprog \in {"INC", "app"} /\ NoContainers(ndata))
    => (Len(nrows) = 1 /\ nrows[1].container_number = None)

(***************************************************************************)
(* Batch runs                                                              *)
(***************************************************************************)
Docs == Range(AllFiles)

\* the rows of document d in a table on disk, in order
RowsOfFile(f, d) ==
    IF f.state = "ok" /\ IdCol(program) \in Range(f.cols)
    THEN SelectSeq(f.rows, LAMBDA r : r[IdCol(program)] = d)
    ELSE <<>>

\* the rows of document d in the in-memory list, in order
RowsOfMem(rs, d) ==
    SelectSeq(rs, LAMBDA r : IdCol(program) \in DOMAIN r /\ r[IdCol(program)] = d)

\* the document identifiers present in a table on disk
IdsOfFile(f) ==
    IF f.state = "ok" /\ IdCol(program) \in Range(f.cols)
    THEN {f.rows[i][IdCol(program)] : i \in 1..Len(f.rows)}
    ELSE {}

\* the rows the collaborator's answer for d stands for, in memory and on disk
AnswerRows(d) == Produced(program, answers[d].data, d)
AnswerCells(d) == Frame(AnswerRows(d), Cols(program)).rows

\* the collaborator answered this run as it did in the previous run, for
\* every document it was asked about in both
SameAnswers ==
    \A d \in Docs :
        (answers[d] # Uncalled /\ prev.answers[d] # Uncalled)
            => answers[d] = prev.answers[d]

TwoCompleteRuns ==
    IsBatch /\ run >= 2 /\ pc = "done" /\ prev.completed /\ SameAnswers

EveryDocumentPersisted ==
    /\ IsBatch /\ run >= 2 /\ prev.completed /\ prev.wfailed = {}
    /\ \A d \in Docs : prev.answers[d].kind = "dict" /\ TruthyDict(prev.answers[d].data)
    /\ Docs \subseteq IdsOfFile(startFile)

\* C4: in a run that follows a run in which every document was extracted
\* and persisted, nothing is pending and the collaborator is never called.
C4_SecondRunNothingPending ==
    EveryDocumentPersisted
    => (files_to_process = <<>> /\ \A d \in Docs : answers[d] = Uncalled)

\* C5: while a run that found a readable table is under way, the processed
\* set is exactly the set of document identifiers of that table.
C5_ProcessedSetIsTableIds ==
    (Started /\ startFile.state = "ok")
    => processed_files = IdsOfFile(startFile)

\* C6: a document on which the collaborator failed (extract_from_pdf gave
\* None, or JSON that is no object) has no row in memory and none added on
\* disk, and it is pending again in the next run.
C6_FailedDocumentStaysPending ==
    IsBatch =>
      /\ \A d \in Docs :
            answers[d].kind \in {"error", "nondict"}
            => /\ RowsOfMem(results, d) = <<>>
               /\ RowsOfFile(file, d) \in {<<>>, RowsOfFile(startFile, d)}
      /\ \A d \in Docs :
            (run >= 2 /\ prev.answers[d].kind \in {"error", "nondict"})
            => d \in Range(files_to_process)

\* NA: a.pdf failed in the first run while b.PDF was saved; in the second
\* run a.pdf is pending and b.PDF is not
C6_Witness ==
    /\ program = "NA" /\ run = 2
    /\ prev.answers["a.pdf"].kind = "error"
    /\ "b.PDF" \in IdsOfFile(startFile)
    /\ "a.pdf" \notin IdsOfFile(startFile)
    /\ files_to_process = <<"a.pdf">>

\* the document of the iteration under way, if there is one
InFlight == IF index <= Len(files_to_process) THEN {Current} ELSE {}

CopiedColumns ==
    Range(Cols(program)) \
        ({IdCol(program)} \cup
         (IF program = "NA" THEN {} ELSE {"container_number", "gross_weight"}))

\* C8: once the program has written it, the table on disk has exactly the
\* fixed columns in the fixed order, every row has a cell for every column,
\* and the cell is empty where the document's Record had no such key.
C8_FixedSchemaOnDisk ==
    (written /\ file.state = "ok") =>
      /\ file.cols = Cols(program)
      /\ \A i \in 1..Len(file.rows) : DOMAIN file.rows[i] = Range(Cols(program))
      /\ IsBatch =>
            \A d \in committed : \A c \in CopiedColumns :
                c \notin DOMAIN answers[d].data
                => \A i \in 1..Len(RowsOfFile(file, d)) :
                       RowsOfFile(file, d)[i][c] = EmptyCell

\* NA rewrote a table that had two columns: the old row and the row of a
\* Record with two keys both have all nine columns
C8_Witness ==
    /\ program = "NA" /\ written /\ file.state = "ok"
    /\ Len(file.rows) = 2
    /\ file.rows[1]["invoice_number"] = "L0"
    /\ file.rows[1]["pcd"] = EmptyCell
    /\ committed = {"b.PDF"} /\ answers["b.PDF"] = Dict(RecPartNA)
    /\ file.rows[2]["pcd"] = EmptyCell

\* a row of an older table with the columns it lacks added, empty
Reconciled(row) ==
    [c \in Range(Cols(program)) |-> IF c \in DOMAIN row THEN row[c] ELSE EmptyCell]

\* the table the run found lacks columns of the fixed schema
FoundNarrowTable ==
    /\ Started /\ startFile.state = "ok"
    /\ Range(startFile.cols) # Range(Cols(program))
    /\ Range(startFile.cols) \subseteq Range(Cols(program))

\* C9: a run that found a table lacking columns of the schema and has
\* written the table keeps every row it found, the new columns empty.
C9_PriorRowsKept ==
    (FoundNarrowTable /\ committed # {}) =>
      /\ file.state = "ok"
      /\ \A i \in 1..Len(startFile.rows) :
            \E j \in 1..Len(file.rows) : file.rows[j] = Reconciled(startFile.rows[i])

C10_State ==
    IsBatch =>
      /\ \A d \in wfailed : RowsOfMem(results, d) = AnswerRows(d)
      /\ lastWrite = "ok" =>
            /\ file = Frame(results, Cols(program))
            /\ \A d \in wfailed : RowsOfFile(file, d) = AnswerCells(d)

C10_Step ==
    (IsBatch /\ pc = "save" /\ wfailed' # wfailed) =>
      /\ pc' = "extract"
      /\ index' = index + 1
      /\ results' = results
      /\ files_to_process' = files_to_process

\* C10: a save that raises keeps the rows in memory and moves the loop to
\* the next pending document, and the next save that succeeds writes all
\* the rows in memory, those of the failed save included.
C10_FailedSaveKeepsRows == [](C10_State) /\ [][C10_Step]_vars

\* the save of a.pdf raised, the save of b.PDF wrote the rows of both
C10_Witness ==
    /\ IsBatch /\ wfailed = {"a.pdf"} /\ lastWrite = "ok"
    /\ committed = {"a.pdf", "b.PDF"}
    /\ RowsOfFile(file, "a.pdf") = AnswerCells("a.pdf")
    /\ Len(RowsOfFile(file, "a.pdf")) >= 1

(***************************************************************************)
(* C11: extraction failures and the loop                                   *)
(***************************************************************************)
\* the documents handed to the collaborator so far are the first pending
\* ones, each once and in discovery order; at the final print, all of them
C11_State ==
    IsBatch =>
      /\ Len(calls) <= Len(files_to_process)
      /\ calls = SubSeq(files_to_process, 1, Len(calls))
      /\ pc = "done" => calls = files_to_process

\* whatever the collaborator answers for a document, the loop goes on
C11_Step ==
    (IsBatch /\ pc = "extract" /\ calls' # calls) => pc' \in {"extract", "save"}

\* C11: every pending document is attempted exactly once, in discovery
\* order, and no extraction outcome (network error, malformed response,
\* response that violates the schema) stops the run before the last one.
C11_FailuresArePerDocument == [](C11_State) /\ [][C11_Step]_vars

(***************************************************************************)
(* C12: the pending list                                                   *)
(***************************************************************************)
\* the place of a document in the discovery order
Place(q, f) == CHOOSE i \in 1..Len(q) : q[i] = f

\* C12: the pending list holds the discovered documents that are not in
\* the processed set, all of them and no other, each once, in the order of
\* discovery.
C12_PendingIsDiscoveredMinusProcessed ==
    Started =>
      /\ Range(files_to_process) = Range(AllFiles) \ processed_files
      /\ \A i, j \in 1..Len(files_to_process) :
            i < j => Place(AllFiles, files_to_process[i])
                       < Place(AllFiles, files_to_process[j])

\* a second run that finds b.PDF in the table and a.pdf not
C12_Witness ==
    /\ Started /\ run = 2
    /\ processed_files = {"b.PDF"}
    /\ files_to_process = <<"a.pdf">>

(***************************************************************************)
(* C13: a table that cannot be read                                        *)
(***************************************************************************)
\* C13: when the table found at the start of a run cannot be read, the run
\* goes on with an empty processed set and every discovered document
\* pending, and the rows in memory are those of this run alone.
C13_UnreadableTableStartsEmpty ==
    (Started /\ startFile.state = "corrupt") =>
      /\ processed_files = {}
      /\ files_to_process = AllFiles
      /\ pc = "extract" /\ calls = <<>> => results = <<>>
      /\ \A i \in 1..Len(results) : results[i][IdCol(program)] \in Appended

\* such a run reached its final print and replaced the unreadable table
C13_Witness ==
    /\ Started /\ startFile.state = "corrupt"
    /\ pc = "done" /\ calls = AllFiles
    /\ file.state = "ok" /\ Len(file.rows) >= 2

(***************************************************************************)
(* C14: the empty Record                                                   *)
(***************************************************************************)
\* C14: a Record without any field gives exactly one row, in the three
\* programs: the document in the identifier column, null in every other
\* field, and so an empty cell in every other column of the table.
C14_EmptyRecordOneRow ==
    (npc = "done" /\ DOMAIN ndata = {}) =>
      /\ Len(nrows) = 1
      /\ nrows[1][IdCol(nprog)] = NormFile
      /\ \A c \in DOMAIN nrows[1] \ {IdCol(nprog)} : nrows[1][c] = None
      /\ \A c \in Range(Cols(nprog)) :
            Frame(nrows, Cols(nprog)).rows[1][c] =
               IF c = IdCol(nprog) THEN NormFile ELSE EmptyCell

(***************************************************************************)
(* C15: the missing credential                                             *)
(***************************************************************************)
\* a batch run without a key hands no document to the collaborator
C15_Batch ==
    (IsBatch /\ credential = None) => (calls = <<>> /\ index = 1)

\* a request without a key is answered 400 and extract_from_pdf is not called
C15_Service ==
    program = "app" =>
      \A t \in Threads :
         (th[t].req.kind = "extract" /\ th[t].req.key = "") =>
            /\ ~th[t].req.called
            /\ th[t].resp = ErrorResponse(400, "API key is required")

\* C15: without a credential the batch run stops before any document is
\* iterated or handed to the collaborator, and the service turns the
\* request down before it calls the extraction client.
C15_MissingCredentialFailsFast == C15_Batch /\ C15_Service

(***************************************************************************)
(* C16: the section of the service that changes the list and the file      *)
(***************************************************************************)
\* the request of thread t is between its first change of
\* extraction_results and its last change of the file
InSection(t) == th[t].pc \in {"append", "write", "clear"}

\* C16: at most one request at a time is inside the section that appends
\* to the global list and rewrites the file.
C16_OneRequestInSection ==
    program = "app" => Cardinality({t \in Threads : InSection(t)}) <= 1

(***************************************************************************)
(* C17: /clear_results                                                     *)
(***************************************************************************)
\* C17: once a /clear_results that ran with no other request in progress
\* has answered, the list in memory is empty and the file does not exist;
\* a /download that comes next is answered 'No results to download'; and
\* the /extract that succeeds next reports as total_records the number of
\* rows of its one document and leaves a file with those rows only.
C17_ClearStartsAfresh ==
    program = "app" =>
      /\ since.st \in {"cleared", "asked"} =>
            /\ extraction_results = <<>>
            /\ file.state = "absent"
      /\ since.st = "asked" =>
            th[since.by].resp = ErrorResponse(404, "No results to download")
      /\ since.st = "extracted" =>
            LET r == th[since.by].resp
            IN  /\ r.status = 200
                /\ Len(r.data) >= 1
                /\ r.total = Len(r.data)
                /\ extraction_results = r.data
                /\ file = Frame(r.data, ColsApp)

\* the table existed, was cleared, and a document of two containers was
\* then extracted
C17_Witness ==
    /\ program = "app" /\ since.st = "extracted"
    /\ startFile.state = "ok"
    /\ th[since.by].resp.total = 2
    /\ Len(file.rows) = 2

\* the table existed, was cleared, and a download was asked for
C17_WitnessDownload ==
    /\ program = "app" /\ since.st = "asked"
    /\ startFile.state = "ok"
    /\ th[since.by].resp.status = 404

(***************************************************************************)
(* C18: the answers of /extract                                            *)
(***************************************************************************)
\* thread t has answered an /extract request
AnsweredExtract(t) == th[t].pc = "idle" /\ th[t].req.kind = "extract"

\* a 200 answer carries the rows of one uploaded document, and its
\* total_records is the total before the request plus these rows
C18_Success(t) ==
    th[t].resp.status = 200 =>
      LET r == th[t].resp
      IN  /\ Len(r.data) >= 1
          /\ \A i \in 1..Len(r.data) :
                /\ allowed_file(r.data[i].file_name)
                /\ r.data[i].file_name = r.data[1].file_name
          /\ r.total = th[t].req.before + Len(r.data)

\* any other answer is an error with a reason and without rows: 400 when
\* the request was turned down before the call, 500 after it
C18_Failure(t) ==
    th[t].resp.status # 200 =>
      LET r == th[t].resp
      IN  /\ r.status \in {400, 500}
          /\ r.error # ""
          /\ r.data = <<>>
          /\ r.status = 400 <=> ~th[t].req.called
          /\ th[t].req.key = "" => r.status = 400

\* C18: a successful /extract answers with exactly the rows newly produced
\* for its document and with total_records = the previous total plus the
\* number of these rows; an unsuccessful one answers with a structured
\* error (400 or 500) and no rows.
C18_ExtractAnswers ==
    program = "app" =>
      \A t \in Threads : AnsweredExtract(t) => (C18_Success(t) /\ C18_Failure(t))

(***************************************************************************)
(* C19: a scalar where a list is expected                                  *)
(***************************************************************************)
\* the Record's field is present, not a list and not null
HasScalar(data, key) ==
    key \in DOMAIN data /\ ~IsList(data[key]) /\ data[key].s # None

\* C19: a scalar container_numbers gives exactly one row whose
\* container_number is that scalar, and a scalar gross_weights gives
\* row 0 that scalar as its gross_weight.
C19_ScalarBecomesOneElementList ==
    (npc = "done" /\ nprog \in {"INC", "app"}) =>
      /\ HasScalar(ndata, "container_numbers") =>
            /\ Len(nrows) = 1
            /\ nrows[1].container_number = ndata["container_numbers"].s
      /\ HasScalar(ndata, "gross_weights") =>
            /\ Len(nrows) >= 1
            /\ nrows[1].gross_weight = ndata["gross_weights"].s

(***************************************************************************)
(* C20: more weights than containers                                       *)
(***************************************************************************)
\* C20: with N >= 1 containers and M > N weights there are exactly N rows,
\* row i carries container i and weight i, the weights beyond N are in no
\* row, and every row carries the document and the Record's scalar fields.
C20_ExcessWeightsDropped ==
    (/\ npc = "done" /\ nprog \in {"INC", "app"}
     /\ HasList(ndata, "container_numbers")
     /\ HasList(ndata, "gross_weights")
     /\ Len(ndata["container_numbers"].l) >= 1
     /\ Len(ndata["gross_weights"].l) > Len(ndata["container_numbers"].l))
    => LET cn == ndata["container_numbers"].l
           gw == ndata["gross_weights"].l
       IN  /\ Len(nrows) = Len(cn)
           /\ \A i \in 1..Len(nrows) :
                 /\ nrows[i].container_number = cn[i]
                 /\ nrows[i].gross_weight = gw[i]
                 /\ nrows[i].file_name = NormFile
                 /\ \A key \in ScalarKeys : nrows[i][key] = Get(ndata, key)

\* one container, two weights, every scalar field reported: one row, with
\* the first weight
C20_Witness ==
    /\ npc = "done" /\ nprog = "INC"
    /\ ScalarKeys \subseteq DOMAIN ndata
    /\ HasList(ndata, "container_numbers") /\ HasList(ndata, "gross_weights")
    /\ ndata["container_numbers"].l = <<"C1">>
    /\ ndata["gross_weights"].l = <<"W1", "W2">>
    /\ Len(nrows) = 1
    /\ nrows[1].gross_weight = "W1"
    /\ nrows[1].total_amount = "1341.00"

(***************************************************************************)
(* C21: no document twice in the table                                     *)
(***************************************************************************)
\* the rows the table holds for document d are those of one extraction
OneExtraction(d) ==
    \E o \in Outcomes(program) :
       /\ o.kind = "dict"
       /\ RowsOfFile(file, d) = Frame(Produced(program, o.data, d), Cols(program)).rows

\* C21: whatever runs were started, completed or ended at any point, the
\* table on disk never holds the rows of one document more than once: at
\* most one row per filename for NA, at most the rows of one extraction
\* (one per container) per file_name for INC.
C21_NoDocumentTwice ==
    (IsBatch /\ file.state = "ok") =>
      \A d \in Docs :
         /\ program = "NA" => Len(RowsOfFile(file, d)) <= 1
         /\ (program = "INC" /\ written) => OneExtraction(d)

\* a first run ended before its final print; the second run found its row,
\* extracted the other document and completed
C21_Witness ==
    /\ program = "NA" /\ run = 2 /\ pc = "done"
    /\ ~prev.completed
    /\ prev.answers["a.pdf"].kind = "dict" /\ prev.answers["b.PDF"] = Uncalled
    /\ startFile.state = "ok" /\ written
    /\ processed_files = {"a.pdf"} /\ calls = <<"b.PDF">>
    /\ Len(RowsOfFile(file, "a.pdf")) = 1
    /\ Len(RowsOfFile(file, "b.PDF")) = 1

(***************************************************************************)
(* C22: overlapping /extract requests                                      *)
(***************************************************************************)
\* the service has received /extract requests only, one per thread, and
\* every one of them has been answered 200
AllExtractsReturned ==
    /\ program = "app" /\ nreq = Cardinality(Threads)
    /\ \A t \in Threads : AnsweredExtract(t) /\ th[t].resp.status = 200

\* the number of rows answered to the threads of T
RECURSIVE RowsAnswered(_)
RowsAnswered(T) ==
    IF T = {} THEN 0
    ELSE LET t == CHOOSE u \in T : TRUE
         IN  Len(th[t].resp.data) + RowsAnswered(T \ {t})

\* C22: once every one of the concurrent successful /extract requests has
\* returned, the file holds exactly the rows of the in-memory list, which
\* are the rows of every request, and each total_records counts the
\* request's own rows.
C22_NoLostUpdate ==
    AllExtractsReturned =>
      /\ file = Frame(extraction_results, ColsApp)
      /\ Len(extraction_results) = RowsAnswered(Threads)
      /\ \A t \in Threads :
            /\ th[t].resp.total >= Len(th[t].resp.data)
            /\ \A i \in 1..Len(th[t].resp.data) :
                  \E j \in 1..Len(extraction_results) :
                     extraction_results[j] = th[t].resp.data[i]

(***************************************************************************)
(* C23: an /extract that answers with an error                             *)
(***************************************************************************)
\* thread t's /extract began with every thread idle and no request has
\* been received since: what changed since it began, it changed
RanAlone(t) ==
    /\ AnsweredExtract(t)
    /\ th[t].req.quiet
    /\ nreq = th[t].req.n + 1

\* C23: when /extract answers 400 or 500, the in-memory list and the file
\* are as they were before the request.
C23_ErrorChangesNothing ==
    program = "app" =>
      \A t \in Threads :
         (RanAlone(t) /\ th[t].resp.status \in {400, 500}) =>
            /\ extraction_results = th[t].req.list
            /\ file = th[t].req.file
====
